---- MODULE Spec2Model ----
(***************************************************************************)
(* Model of src/src/index.js: the facial-redaction sample.  The module     *)
(* top level starts the face-api.js model load and the WebViewer; the      *)
(* click handler built by onRedactFacesButtonClickFactory sweeps the       *)
(* pages of the current document, and detectAndRedactFacesFromPage runs    *)
(* one page through loadCanvas -> convertCanvasToImage -> detectAllFaces   *)
(* -> resizeResults -> createFaceRedactionAnnotation -> resolve.           *)
(*                                                                         *)
(* One action is one run-to-completion piece of JavaScript: the           *)
(* synchronous part of a click, one callback, or one continuation after   *)
(* an await.  The external services (rasterizer, image decoder, detector, *)
(* annotation manager) answer nondeterministically: they complete, or     *)
(* they fail.                                                             *)
(***************************************************************************)
EXTENDS Integers, Sequences, FiniteSets, TLC

\* ------------------------------------------------------------------ bounds
\* Number of times the redact button is clicked (each click is one sweep).
MaxSweeps == 2
\* Largest page count of a document the viewer may hold.
MaxPages == 2
\* Largest number of faces the detector returns for one page.
MaxFaces == 2

\* --------------------------------------------------------- program constants
\* zoom: 0.5, as the fraction ZoomNum / ZoomDen.
ZoomNum == 1
ZoomDen == 2
\* minConfidence: 0.40, in hundredths.
MinConfidence == 40
\* maxResults: 300
MaxResults == 300

Sweeps == 1..MaxSweeps
PageCounts == 0..MaxPages

\* annotationManager.getCurrentUser()
GetCurrentUser == "Guest"

\* new Annotations.Color(255, 0, 0, 1)
StrokeColor == <<255, 0, 0, 1>>

\* doc.getPageInfo(pageNumber): width and height in document units.
PageInfo(p) ==
  IF p % 2 = 1 THEN [width |-> 200, height |-> 300]
               ELSE [width |-> 300, height |-> 200]

\* The canvas loadCanvas draws: the page scaled by zoom.
CanvasSize(pageInfo) ==
  [width  |-> (pageInfo.width * ZoomNum) \div ZoomDen,
   height |-> (pageInfo.height * ZoomNum) \div ZoomDen]

\* The i-th box the detector may report, in raster space; every one lies inside
\* the smallest canvas.  RawBox(1) is {x: 10, y: 20, width: 30, height: 40}.
RawBox(i) == [x |-> 10 * i, y |-> 20 + 5 * (i - 1), width |-> 30, height |-> 40 + i - 1]

\* The confidence, in hundredths, the network gives the i-th candidate face: a
\* clear face, one exactly at 0.40, one below it, and so on.
CandidateScore(i) ==
  CASE i % 3 = 1 -> 90
    [] i % 3 = 2 -> 40
    [] OTHER -> 30

\* The first n candidate faces the network scores in an image of the given
\* dimensions, each with its box, its score and the dimensions of the image.
Candidates(imageDims, n) ==
  [i \in 1..n |-> [box |-> RawBox(i), score |-> CandidateScore(i), imageDims |-> imageDims]]

\* Mutant of SsdMobilenetv1Options: a lower minConfidence is passed.
SsdMobilenetv1OptionsLowConfidence == [minConfidence |-> 10, maxResults |-> MaxResults]

\* new faceapi.SsdMobilenetv1Options({ minConfidence: 0.40, maxResults: 300 })
SsdMobilenetv1Options == [minConfidence |-> MinConfidence, maxResults |-> MaxResults]

\* The candidates of q that reach the score threshold, in order.
RECURSIVE AboveThreshold(_, _)
AboveThreshold(q, threshold) ==
  IF q = <<>> THEN <<>>
  ELSE IF Head(q).score >= threshold
       THEN <<Head(q)>> \o AboveThreshold(Tail(q), threshold)
       ELSE AboveThreshold(Tail(q), threshold)

\* What faceapi.detectAllFaces(image, options) resolves to when the network
\* scored the given candidates: those with score >= options.minConfidence, at
\* most options.maxResults of them.
DetectAllFaces(candidates, options) ==
  LET kept == AboveThreshold(candidates, options.minConfidence)
  IN  IF Len(kept) <= options.maxResults THEN kept
      ELSE SubSeq(kept, 1, options.maxResults)

\* The numbers of candidate faces an image may hold: up to one more than the
\* detector returns, so that some candidate is below the threshold.
CandidateCounts == 0..(MaxFaces + 1)

\* ------------------------------------------------------------------- state
VARIABLES
  modelState,     \* faceapi.nets.ssdMobilenetv1: "loading", "loaded", "failed"
  buttonAdded,    \* the WebViewer promise resolved and the button is in the header
  doc,            \* page count of documentViewer.getDocument()
  store,          \* annotationManager: the sequence of annotations added
  storeSweep,     \* for each annotation of the store, the sweep that added it
  nextSweep,      \* the next click starts sweep nextSweep
  pc,             \* per sweep: where the click handler and its page are
  numberOfPages,  \* per sweep: doc.getPageCount() read at click time
  pageNumber,     \* per sweep: the loop variable
  displaySize,    \* per sweep: displaySize of the page in flight
  detectReady,    \* per sweep: the model was loaded when detectAllFaces was called
  failure,        \* per sweep: [kind, page] of the failure that hit the sweep
  shown,          \* per sweep: calls of showProgress
  hidden,         \* per sweep: calls of hideProgress
  notified,       \* per sweep: calls of sendPageProcessing
  started,        \* per sweep: pages for which loadCanvas was requested, in order
  resolved,       \* per sweep: pages whose promise resolved, in order
  lastCandidates, \* per sweep: number of candidate faces scored in the page in flight
  lastRaw,        \* per sweep: detections of the page in flight, as detected
  lastResized     \* per sweep: the detections passed to createFaceRedactionAnnotation

vars == <<modelState, buttonAdded, doc, store, storeSweep, nextSweep, pc, numberOfPages,
          pageNumber, displaySize, detectReady, failure, shown, hidden,
          notified, started, resolved, lastCandidates, lastRaw, lastResized>>

sweepVars == <<pc, numberOfPages, pageNumber, displaySize, detectReady, failure,
               shown, hidden, notified, started, resolved, lastCandidates, lastRaw, lastResized>>

\* Stages in which a page's rasterize -> detect -> annotate chain is in flight.
\* A page whose chain failed without settling its promise ("Hung") never leaves
\* its stage.
InFlight == {"Rasterizing", "Converting", "Detecting", "Hung"}

NoSize == [width |-> 0, height |-> 0]

NoFailure == [kind |-> "none", page |-> 0]

Init ==
  /\ modelState = "loading"
  /\ buttonAdded = FALSE
  /\ doc \in PageCounts
  /\ store = <<>>
  /\ storeSweep = <<>>
  /\ nextSweep = 1
  /\ pc = [s \in Sweeps |-> "Idle"]
  /\ numberOfPages = [s \in Sweeps |-> 0]
  /\ pageNumber = [s \in Sweeps |-> 0]
  /\ displaySize = [s \in Sweeps |-> NoSize]
  /\ detectReady = [s \in Sweeps |-> FALSE]
  /\ failure = [s \in Sweeps |-> NoFailure]
  /\ shown = [s \in Sweeps |-> 0]
  /\ hidden = [s \in Sweeps |-> 0]
  /\ notified = [s \in Sweeps |-> 0]
  /\ started = [s \in Sweeps |-> <<>>]
  /\ resolved = [s \in Sweeps |-> <<>>]
  /\ lastCandidates = [s \in Sweeps |-> 0]
  /\ lastRaw = [s \in Sweeps |-> <<>>]
  /\ lastResized = [s \in Sweeps |-> <<>>]

\* ------------------------------------------------------- pure functions
\* new Annotations.Quad(x1, y1, x2, y2, x3, y3, x4, y4)
Quad(x1, y1, x2, y2, x3, y3, x4, y4) ==
  [x1 |-> x1, y1 |-> y1, x2 |-> x2, y2 |-> y2,
   x3 |-> x3, y3 |-> y3, x4 |-> x4, y4 |-> y4]

\* Mutant of QuadOfDetection: the points start at the top left corner.
QuadOfDetectionTopLeftFirst(detection) ==
  LET x == detection.box.x
      y == detection.box.y
      width == detection.box.width
      height == detection.box.height
  IN  Quad(x, y, x + width, y, x + width, y + height, x, y + height)

\* The callback of faceDetections.map: one quad per detection, its points
\* going bottom left -> bottom right -> top right -> top left.
QuadOfDetection(detection) ==
  LET x == detection.box.x
      y == detection.box.y
      width == detection.box.width
      height == detection.box.height
      topLeft == <<x, y>>
      topRight == <<x + width, y>>
      bottomLeft == <<x, y + height>>
      bottomRight == <<x + width, y + height>>
  IN  Quad(bottomLeft[1], bottomLeft[2], bottomRight[1], bottomRight[2],
           topRight[1], topRight[2], topLeft[1], topLeft[2])

\* Mutant of HasDetections: the guard is dropped.
HasDetectionsAlways(faceDetections) == TRUE

\* if (faceDetections && faceDetections.length > 0)
HasDetections(faceDetections) == Len(faceDetections) > 0

\* Mutant of FaceAnnotation: the page number is taken as a 0-based index.
FaceAnnotationPageOffByOne(page, faceDetections) ==
  [Quads |-> [i \in 1..Len(faceDetections) |-> QuadOfDetection(faceDetections[i])],
   Author |-> GetCurrentUser,
   PageNumber |-> page - 1,
   StrokeColor |-> StrokeColor,
   Drawn |-> FALSE]

\* new Annotations.RedactionAnnotation({ Quads }) with Author, PageNumber and
\* StrokeColor set.  Drawn records redrawAnnotation.
FaceAnnotation(page, faceDetections) ==
  [Quads |-> [i \in 1..Len(faceDetections) |-> QuadOfDetection(faceDetections[i])],
   Author |-> GetCurrentUser,
   PageNumber |-> page,
   StrokeColor |-> StrokeColor,
   Drawn |-> FALSE]

\* Mutant of AddAnnotation: the new annotation replaces the ones in the store.
AddAnnotationReplacing(st, annotation) == <<annotation>>

\* annotationManager.addAnnotation(faceAnnotation, false)
AddAnnotation(st, annotation) == Append(st, annotation)

\* Mutant of RedrawAnnotation: the annotation is not redrawn.
RedrawAnnotationSkipped(st) == st

\* annotationManager.redrawAnnotation(faceAnnotation): the annotation just added.
RedrawAnnotation(st) == [st EXCEPT ![Len(st)].Drawn = TRUE]

\* Mutant of CreateFaceRedactionAnnotation: one annotation per detected face.
CreateFaceRedactionAnnotationPerFace(st, page, faceDetections) ==
  st \o [i \in 1..Len(faceDetections) |->
          [FaceAnnotation(page, <<faceDetections[i]>>) EXCEPT !.Drawn = TRUE]]

\* createFaceRedactionAnnotation(webViewerInstance, pageNumber, faceDetections):
\* the annotation store it leaves.
CreateFaceRedactionAnnotation(st, page, faceDetections) ==
  IF HasDetections(faceDetections)
  THEN RedrawAnnotation(AddAnnotation(st, FaceAnnotation(page, faceDetections)))
  ELSE st

\* createFaceRedactionAnnotation when redrawAnnotation throws: the annotation is
\* added and not redrawn.
CreateFaceRedactionAnnotationThrowsInRedraw(st, page, faceDetections) ==
  AddAnnotation(st, FaceAnnotation(page, faceDetections))

\* FaceDetection.forSize(width, height): the same relative box (the box over the
\* dimensions of the image it was found in) laid over the new dimensions.
ForSize(detection, size) ==
  [box |-> [x      |-> (detection.box.x * size.width) \div detection.imageDims.width,
            y      |-> (detection.box.y * size.height) \div detection.imageDims.height,
            width  |-> (detection.box.width * size.width) \div detection.imageDims.width,
            height |-> (detection.box.height * size.height) \div detection.imageDims.height],
   score |-> detection.score,
   imageDims |-> size]

\* Mutant of ResizeResults: the detections are passed on in raster space.
ResizeResultsNotResized(detections, size) == detections

\* faceapi.resizeResults(detections, displaySize)
ResizeResults(detections, size) ==
  [i \in 1..Len(detections) |-> ForSize(detections[i], size)]

\* Mutant of LoopCondition: the last page is left out.
LoopConditionOffByOne(p, n) == p < n

\* for (...; pageNumber <= numberOfPages; ...)
LoopCondition(p, n) == p <= n

\* Mutant of ShowProgress: the progress indicator is not shown.
ShowProgressDropped(count) == count

\* showProgress(): one more call.
ShowProgress(count) == count + 1

\* hideProgress(): one more call.
HideProgress(count) == count + 1

\* Mutant of SendPageProcessing: the notification is not fired.
SendPageProcessingDropped(count) == count

\* sendPageProcessing(): one more progress notification.
SendPageProcessing(count) == count + 1

\* Mutant of AwaitSettled: the await is missing, the loop goes on while the page
\* is still being rasterized.
AwaitSettledNotAwaited(s) == pc[s] \in {"Done", "Rasterizing"}

\* await detectAndRedactFacesFromPage(...): the handler goes on once the page's
\* promise resolved.
AwaitSettled(s) == pc[s] = "Done"

\* Mutant of UnhandledRejection: the failure is caught and passed to reject.
UnhandledRejectionRejects == "Rejected"

\* Mutant of UnhandledRejection: the failure is swallowed and the page's promise
\* resolved.
UnhandledRejectionResolves == "Done"

\* A failure inside drawComplete or inside the then-callback rejects only the
\* promise of that inner chain, which nothing handles: the page's own promise
\* is never settled and the handler stays suspended at its await.
UnhandledRejection == "Hung"

\* ------------------------------------------------------------- actions
\* faceapi.nets.ssdMobilenetv1.loadFromUri('/models') completes.
ModelLoaded ==
  /\ modelState = "loading"
  /\ modelState' = "loaded"
  /\ UNCHANGED <<buttonAdded, doc, store, storeSweep, nextSweep, sweepVars>>

\* loadFromUri rejects; nothing handles the rejection.
ModelLoadFailed ==
  /\ modelState = "loading"
  /\ modelState' = "failed"
  /\ UNCHANGED <<buttonAdded, doc, store, storeSweep, nextSweep, sweepVars>>

\* WebViewer(...).then(...): the button is added to the header.
ViewerReady ==
  /\ ~buttonAdded
  /\ buttonAdded' = TRUE
  /\ UNCHANGED <<modelState, doc, store, storeSweep, nextSweep, sweepVars>>

\* enableFilePicker: the user opens another document.
LoadDocument(d) ==
  /\ buttonAdded
  /\ d # doc
  /\ doc' = d
  /\ UNCHANGED <<modelState, buttonAdded, store, storeSweep, nextSweep, sweepVars>>

\* One pass of the for loop of onRedactFacesButtonClick with pageNumber = p, up
\* to its await: the loop test, sendPageProcessing, and the executor of
\* detectAndRedactFacesFromPage (getDocument, getPageInfo, loadCanvas); or, the
\* loop test failing, hideProgress.  A throw inside the executor rejects the
\* page's promise, and the await rethrows it out of the handler.
LoopPass(s, p, renderThrows) ==
  /\ pageNumber' = [pageNumber EXCEPT ![s] = p]
  /\ IF LoopCondition(p, numberOfPages'[s])
     THEN /\ notified' = [notified EXCEPT ![s] = SendPageProcessing(@)]
          /\ lastCandidates' = [lastCandidates EXCEPT ![s] = 0]
          /\ lastRaw' = [lastRaw EXCEPT ![s] = <<>>]
          /\ lastResized' = [lastResized EXCEPT ![s] = <<>>]
          /\ detectReady' = [detectReady EXCEPT ![s] = FALSE]
          /\ hidden' = hidden
          /\ IF p > doc
             THEN \* getPageInfo gives no page info: reading its width throws
                  /\ pc' = [pc EXCEPT ![s] = "Rejected"]
                  /\ failure' = [failure EXCEPT ![s] = [kind |-> "PageInfoFailure", page |-> p]]
                  /\ UNCHANGED <<started, displaySize>>
             ELSE /\ started' = [started EXCEPT ![s] = Append(@, p)]
                  /\ displaySize' = [displaySize EXCEPT ![s] = PageInfo(p)]
                  /\ IF renderThrows
                     THEN /\ pc' = [pc EXCEPT ![s] = "Rejected"]
                          /\ failure' = [failure EXCEPT ![s] = [kind |-> "RenderFailure", page |-> p]]
                     ELSE /\ pc' = [pc EXCEPT ![s] = "Rasterizing"]
                          /\ failure' = failure
     ELSE /\ hidden' = [hidden EXCEPT ![s] = HideProgress(@)]
          /\ pc' = [pc EXCEPT ![s] = "Finished"]
          /\ UNCHANGED <<notified, lastCandidates, lastRaw, lastResized, detectReady, failure,
                         started, displaySize>>

\* The user clicks the redact button: onRedactFacesButtonClick up to its first
\* await (or to its end, for a document without pages).
Click(renderThrows) ==
  /\ buttonAdded
  /\ nextSweep <= MaxSweeps
  /\ nextSweep' = nextSweep + 1
  /\ numberOfPages' = [numberOfPages EXCEPT ![nextSweep] = doc]
  /\ shown' = [shown EXCEPT ![nextSweep] = ShowProgress(@)]
  /\ LoopPass(nextSweep, 1, renderThrows)
  /\ UNCHANGED <<modelState, buttonAdded, doc, store, storeSweep, resolved>>

\* The handler resumes after its await and runs the next pass of the loop.
Continue(s, renderThrows) ==
  /\ AwaitSettled(s)
  /\ numberOfPages' = numberOfPages
  /\ LoopPass(s, pageNumber[s] + 1, renderThrows)
  /\ UNCHANGED <<modelState, buttonAdded, doc, store, storeSweep, nextSweep, shown, resolved>>

\* The stage of sweep s fails asynchronously with the given kind.
FailStage(s, kind) ==
  /\ pc' = [pc EXCEPT ![s] = UnhandledRejection]
  /\ failure' = [failure EXCEPT ![s] = [kind |-> kind, page |-> pageNumber[s]]]

\* The rasterizer calls drawComplete(canvas); convertCanvasToImage reads the
\* canvas and sets image.src.
DrawComplete(s) ==
  /\ pc[s] = "Rasterizing"
  /\ pc' = [pc EXCEPT ![s] = "Converting"]
  /\ UNCHANGED <<modelState, buttonAdded, doc, store, storeSweep, nextSweep, numberOfPages,
                 pageNumber, displaySize, detectReady, failure, shown, hidden,
                 notified, started, resolved, lastCandidates, lastRaw, lastResized>>

\* The page cannot be rasterized: drawComplete is never called.
RenderFails(s) ==
  /\ pc[s] = "Rasterizing"
  /\ FailStage(s, "RenderFailure")
  /\ UNCHANGED <<modelState, buttonAdded, doc, store, storeSweep, nextSweep, numberOfPages,
                 pageNumber, displaySize, detectReady, shown, hidden,
                 notified, started, resolved, lastCandidates, lastRaw, lastResized>>

\* image.onload: the image promise resolves and the then-callback calls
\* faceapi.detectAllFaces(image, ...).
ImageLoaded(s) ==
  /\ pc[s] = "Converting"
  /\ pc' = [pc EXCEPT ![s] = "Detecting"]
  /\ detectReady' = [detectReady EXCEPT ![s] = (modelState = "loaded")]
  /\ UNCHANGED <<modelState, buttonAdded, doc, store, storeSweep, nextSweep, numberOfPages,
                 pageNumber, displaySize, failure, shown, hidden,
                 notified, started, resolved, lastCandidates, lastRaw, lastResized>>

\* The image never loads (no onerror handler): the image promise stays pending.
ConversionFails(s) ==
  /\ pc[s] = "Converting"
  /\ FailStage(s, "ConversionFailure")
  /\ UNCHANGED <<modelState, buttonAdded, doc, store, storeSweep, nextSweep, numberOfPages,
                 pageNumber, displaySize, detectReady, shown, hidden,
                 notified, started, resolved, lastCandidates, lastRaw, lastResized>>

\* detectAllFaces rejects: the model was not loaded when it was called, or the
\* detection itself failed.
DetectRejected(s) ==
  /\ pc[s] = "Detecting"
  /\ FailStage(s, IF detectReady[s] THEN "DetectionFailure" ELSE "ModelNotReady")
  /\ UNCHANGED <<modelState, buttonAdded, doc, store, storeSweep, nextSweep, numberOfPages,
                 pageNumber, displaySize, detectReady, shown, hidden,
                 notified, started, resolved, lastCandidates, lastRaw, lastResized>>

\* detectAllFaces resolves, the network having scored n candidate faces; the
\* rest of the then-callback runs: resizeResults, createFaceRedactionAnnotation,
\* resolve().  outcome says whether the annotation manager throws, and where.
DetectResolved(s, n, outcome) ==
  /\ pc[s] = "Detecting"
  /\ detectReady[s]
  /\ LET detections == DetectAllFaces(Candidates(CanvasSize(displaySize[s]), n),
                                      SsdMobilenetv1Options)
         resizedDetections == ResizeResults(detections, displaySize[s])
     IN  /\ outcome # "ok" => HasDetections(resizedDetections)
         /\ lastCandidates' = [lastCandidates EXCEPT ![s] = n]
         /\ lastRaw' = [lastRaw EXCEPT ![s] = detections]
         /\ lastResized' = [lastResized EXCEPT ![s] = resizedDetections]
         /\ store' = CASE outcome = "ok" ->
                            CreateFaceRedactionAnnotation(store, pageNumber[s], resizedDetections)
                       [] outcome = "throwsInAdd" -> store
                       [] outcome = "throwsInRedraw" ->
                            CreateFaceRedactionAnnotationThrowsInRedraw(
                              store, pageNumber[s], resizedDetections)
         /\ storeSweep' = storeSweep \o [i \in 1..(Len(store') - Len(store)) |-> s]
         /\ IF outcome = "ok"
            THEN /\ pc' = [pc EXCEPT ![s] = "Done"]
                 /\ resolved' = [resolved EXCEPT ![s] = Append(@, pageNumber[s])]
                 /\ failure' = failure
            ELSE /\ FailStage(s, "AnnotationFailure")
                 /\ resolved' = resolved
  /\ UNCHANGED <<modelState, buttonAdded, doc, nextSweep, numberOfPages,
                 pageNumber, displaySize, detectReady, shown, hidden,
                 notified, started>>

Outcomes == {"ok", "throwsInAdd", "throwsInRedraw"}

Next ==
  \/ ModelLoaded
  \/ ModelLoadFailed
  \/ ViewerReady
  \/ \E d \in PageCounts : LoadDocument(d)
  \/ \E renderThrows \in BOOLEAN : Click(renderThrows)
  \/ \E s \in Sweeps, renderThrows \in BOOLEAN : Continue(s, renderThrows)
  \/ \E s \in Sweeps : DrawComplete(s)
  \/ \E s \in Sweeps : RenderFails(s)
  \/ \E s \in Sweeps : ImageLoaded(s)
  \/ \E s \in Sweeps : ConversionFails(s)
  \/ \E s \in Sweeps : DetectRejected(s)
  \/ \E s \in Sweeps, o \in Outcomes, n \in CandidateCounts :
       DetectResolved(s, n, o)

Spec == Init /\ [][Next]_vars

\* Any step of sweep s after its click.
SweepStep(s) ==
  \/ \E renderThrows \in BOOLEAN : Continue(s, renderThrows)
  \/ DrawComplete(s)
  \/ RenderFails(s)
  \/ ImageLoaded(s)
  \/ ConversionFails(s)
  \/ DetectRejected(s)
  \/ \E o \in Outcomes, n \in CandidateCounts : DetectResolved(s, n, o)

\* The event loop runs every continuation that is ready, and every external
\* call in flight is eventually decided: it completes, or it fails.
Fairness == \A s \in Sweeps : WF_vars(SweepStep(s))

FairSpec == Spec /\ Fairness

\* ------------------------------------------------------------- claims
\* The pages 1..n in order.
PagesUpTo(n) == [i \in 1..n |-> i]

Failed(s) == failure[s].kind # "none"

\* C1: if any stage of a page fails during a sweep, the error propagates: the
\* page's promise rejects and the sweep's promise rejects with that failure; the
\* sweep does not stay suspended on the failed page.
C1_FailurePropagates ==
  \A s \in Sweeps : Failed(s) => pc[s] = "Rejected"

\* C2: whenever detectAllFaces is invoked for a page, the model load has
\* already finished.
C2_ModelLoadedBeforeDetect ==
  \A s \in Sweeps : pc[s] = "Detecting" => detectReady[s]

\* C3: at most one page's rasterize -> detect -> annotate chain is in flight.
C3_AtMostOnePageInFlight ==
  Cardinality({ s \in Sweeps : pc[s] \in InFlight }) <= 1

\* C4: within one sweep the pages are started in ascending order 1, 2, ..., and
\* page N+1 is started only after the promise of page N resolved.
C4_PagesSequential ==
  \A s \in Sweeps :
    \A i \in 1..Len(started[s]) :
      /\ started[s][i] = i
      /\ i > 1 => /\ Len(resolved[s]) >= i - 1
                  /\ resolved[s][i - 1] = i - 1

C4_Witness ==
  \E s \in Sweeps : Len(started[s]) >= 2 /\ pc[s] = "Rasterizing"

\* C5: a page whose detection yields no detections leaves the annotation store
\* unchanged and reaches Done; the store never holds a marker without quads.
C5_EmptyDetectionNoMarker ==
  /\ [][\A s \in Sweeps :
          (/\ pc[s] = "Detecting"
           /\ pc'[s] # "Detecting"
           /\ failure'[s] = failure[s]
           /\ lastResized'[s] = <<>>)
          => (store' = store /\ pc'[s] = "Done")]_vars
  /\ [](\A i \in 1..Len(store) : Len(store[i].Quads) > 0)

C5_Witness ==
  \E s \in Sweeps :
    /\ pc[s] = "Done"
    /\ lastRaw[s] = <<>>
    /\ resolved[s] # <<>>
    /\ store = <<>>

\* C6: a page with k > 0 resized detections commits exactly one marker with
\* exactly k quads, the i-th from the i-th detection's box, its points going
\* bottom-left (x, y+height), bottom-right (x+width, y+height), top-right
\* (x+width, y), top-left (x, y).
C6_OneMarkerKQuads ==
  [][\A s \in Sweeps :
       (/\ pc[s] = "Detecting"
        /\ pc'[s] = "Done"
        /\ Len(lastResized'[s]) > 0)
       => LET k == Len(lastResized'[s])
              marker == store'[Len(store')]
          IN  /\ Len(store') = Len(store) + 1
              /\ SubSeq(store', 1, Len(store)) = store
              /\ Len(marker.Quads) = k
              /\ \A i \in 1..k :
                   LET b == lastResized'[s][i].box
                       q == marker.Quads[i]
                   IN  /\ q.x1 = b.x            /\ q.y1 = b.y + b.height
                       /\ q.x2 = b.x + b.width  /\ q.y2 = b.y + b.height
                       /\ q.x3 = b.x + b.width  /\ q.y3 = b.y
                       /\ q.x4 = b.x            /\ q.y4 = b.y]_vars

C6_Witness ==
  \E s \in Sweeps :
    /\ pc[s] = "Done"
    /\ Len(lastResized[s]) = 2
    /\ Len(store) = 1
    /\ Len(store[1].Quads) = 2

\* C7: once a stage failed on page p of a sweep, no page q > p of that sweep is
\* started and no progress notification is issued for it.
C7_SweepHaltsAtFailure ==
  \A s \in Sweeps :
    Failed(s) =>
      /\ \A i \in 1..Len(started[s]) : started[s][i] <= failure[s].page
      /\ notified[s] <= failure[s].page
      /\ pageNumber[s] = failure[s].page
      /\ hidden[s] = 0

\* A page failed to rasterize while the sweep still had pages left.
C7_Witness ==
  \E s \in Sweeps :
    /\ failure[s].kind = "RenderFailure"
    /\ failure[s].page < numberOfPages[s]
    /\ pc[s] = "Hung"

\* Every page 1..N of sweep s was processed exactly once and hideProgress called.
SweepComplete(s) ==
  /\ pc[s] = "Finished"
  /\ started[s] = PagesUpTo(numberOfPages[s])
  /\ resolved[s] = PagesUpTo(numberOfPages[s])
  /\ hidden[s] = 1

\* C8: a sweep none of whose external calls fails terminates: it processes every
\* page 1..N exactly once and then calls hideProgress; nothing stops it earlier.
C8_SweepTerminates ==
  /\ \A s \in Sweeps : (pc[s] # "Idle") ~> (Failed(s) \/ SweepComplete(s))
  /\ [](\A s \in Sweeps : pc[s] = "Finished" => SweepComplete(s))

C8_Witness ==
  \E s \in Sweeps : SweepComplete(s) /\ numberOfPages[s] = MaxPages

\* C9: every detection box passed to createFaceRedactionAnnotation is the
\* raster-space box with x, y, width and height divided by the zoom factor.
C9_ResizedByZoom ==
  \A s \in Sweeps :
    /\ Len(lastResized[s]) = Len(lastRaw[s])
    /\ \A i \in 1..Len(lastResized[s]) :
         LET r == lastResized[s][i].box
             b == lastRaw[s][i].box
         IN  /\ r.x * ZoomNum = b.x * ZoomDen
             /\ r.y * ZoomNum = b.y * ZoomDen
             /\ r.width * ZoomNum = b.width * ZoomDen
             /\ r.height * ZoomNum = b.height * ZoomDen

\* The raw box {x: 10, y: 20, width: 30, height: 40} was resized to
\* {x: 20, y: 40, width: 60, height: 80}.
C9_Witness ==
  \E s \in Sweeps :
    /\ Len(lastResized[s]) > 0
    /\ lastRaw[s][1].box = [x |-> 10, y |-> 20, width |-> 30, height |-> 40]
    /\ lastResized[s][1].box = [x |-> 20, y |-> 40, width |-> 60, height |-> 80]

\* C10: sendPageProcessing is fired exactly once per page, after the previous
\* page resolved and in the same step as the page's loadCanvas request.
C10_NotifyOncePerPage ==
  /\ [](\A s \in Sweeps :
          /\ pc[s] \notin {"Idle", "Finished"} => notified[s] = pageNumber[s]
          /\ pc[s] = "Finished" => notified[s] = numberOfPages[s]
          /\ pc[s] = "Idle" => notified[s] = 0)
  /\ [][\A s \in Sweeps :
          /\ notified'[s] # notified[s] =>
               /\ notified'[s] = notified[s] + 1
               /\ pc[s] \in {"Idle", "Done"}
               /\ resolved[s] = PagesUpTo(notified[s])
               /\ started[s] = PagesUpTo(notified[s])
               /\ started'[s] \in {started[s], Append(started[s], notified'[s])}
          /\ started'[s] # started[s] =>
               /\ notified'[s] = notified[s] + 1
               /\ started'[s] = Append(started[s], notified'[s])]_vars

C10_Witness ==
  \E s \in Sweeps : notified[s] = 2 /\ started[s] = <<1, 2>> /\ pc[s] = "Rasterizing"

\* C11: detections below the minimum confidence 0.40 never reach
\* createFaceRedactionAnnotation: every detection passed to it has a score of
\* at least 0.40, and every quad of the marker committed for it is the quad of
\* one of those detections.
C11_LowConfidenceExcluded ==
  /\ [](\A s \in Sweeps :
          \A i \in 1..Len(lastResized[s]) : lastResized[s][i].score >= MinConfidence)
  /\ [][\A s \in Sweeps :
          (pc[s] = "Detecting" /\ Len(store') > Len(store) /\ pc'[s] # pc[s])
          => LET marker == store'[Len(store')]
             IN  /\ Len(marker.Quads) = Len(lastResized'[s])
                 /\ \A i \in 1..Len(marker.Quads) :
                      /\ marker.Quads[i].x4 = lastResized'[s][i].box.x
                      /\ marker.Quads[i].y4 = lastResized'[s][i].box.y
                      /\ lastResized'[s][i].score >= MinConfidence]_vars

\* The network scored a candidate below 0.40 and the marker holds only the two
\* faces at or above it.
C11_Witness ==
  \E s \in Sweeps :
    /\ pc[s] = "Done"
    /\ lastCandidates[s] = 3
    /\ Len(lastResized[s]) = 2
    /\ Len(store) = 1
    /\ Len(store[1].Quads) = 2

\* The stage changes a page invocation and its sweep may make.
StageOrder ==
  { <<"Idle", "Rasterizing">>, <<"Idle", "Rejected">>, <<"Idle", "Finished">>,
    <<"Rasterizing", "Converting">>, <<"Rasterizing", "Hung">>,
    <<"Converting", "Detecting">>, <<"Converting", "Hung">>,
    <<"Detecting", "Done">>, <<"Detecting", "Hung">>,
    <<"Done", "Rasterizing">>, <<"Done", "Rejected">>, <<"Done", "Finished">> }

\* C12: a page goes Idle -> Rasterizing -> (image conversion) -> Detecting ->
\* Annotating -> Done, no stage skipped or repeated: detection starts only after
\* drawComplete and the image load; the store changes only in the step that
\* ends detection, after resizing; the page's promise resolves only in that
\* step, with the marker (when there are detections) added and redrawn.
C12_StagesInOrder ==
  [][/\ \A s \in Sweeps :
          /\ pc'[s] # pc[s] => <<pc[s], pc'[s]>> \in StageOrder
          /\ resolved'[s] # resolved[s] =>
               /\ pc[s] = "Detecting"
               /\ pc'[s] = "Done"
               /\ resolved'[s] = Append(resolved[s], pageNumber[s])
               /\ started[s][Len(started[s])] = pageNumber[s]
               /\ IF Len(lastResized'[s]) > 0
                  THEN /\ Len(store') = Len(store) + 1
                       /\ store'[Len(store')].Drawn
                       /\ Len(store'[Len(store')].Quads) = Len(lastResized'[s])
                  ELSE store' = store
     /\ store' # store =>
          \E s \in Sweeps :
            /\ pc[s] = "Detecting"
            /\ pc'[s] \in {"Done", "Hung"}
            /\ Len(lastResized'[s]) > 0
            /\ Len(lastResized'[s]) = Len(lastRaw'[s])
            /\ Len(store') = Len(store) + 1
            /\ SubSeq(store', 1, Len(store)) = store]_vars

\* A page with detections reached Done: its marker is in the store, redrawn.
C12_Witness ==
  \E s \in Sweeps :
    /\ pc[s] = "Done"
    /\ resolved[s] = <<1>>
    /\ Len(lastResized[s]) = 1
    /\ Len(store) = 1
    /\ store[1].Drawn

\* C13: the annotation store only grows: every marker committed earlier stays
\* in the store, at its place, with the same page number and quads, also after
\* a later page fails or hangs.
C13_StoreAppendOnly ==
  [][/\ Len(store') >= Len(store)
     /\ \A i \in 1..Len(store) :
          /\ store'[i].PageNumber = store[i].PageNumber
          /\ store'[i].Quads = store[i].Quads
          /\ store'[i].Author = store[i].Author]_vars

\* Page 1 was committed and page 2 of the same sweep then failed; the marker of
\* page 1 is still in the store.
C13_Witness ==
  \E s \in Sweeps :
    /\ failure[s].page = 2
    /\ pc[s] = "Hung"
    /\ resolved[s] = <<1>>
    /\ Len(store) >= 1
    /\ store[1].PageNumber = 1

\* C14, as claimed: after any sequence of sweeps the store holds at most one
\* marker per page.
C14_OneMarkerPerPage ==
  \A i, j \in 1..Len(store) :
    i # j => store[i].PageNumber # store[j].PageNumber

\* C14, amended: each sweep adds at most one marker per page (one marker for
\* all the faces of the page, never one per face); a further sweep over the
\* same pages adds its own markers.
C14_OneMarkerPerPagePerSweep ==
  /\ Len(storeSweep) = Len(store)
  /\ \A i, j \in 1..Len(store) :
       (i # j /\ storeSweep[i] = storeSweep[j])
         => store[i].PageNumber # store[j].PageNumber

\* Two sweeps each committed a marker for page 1, each holding both faces.
C14_Witness ==
  /\ Len(store) = 2
  /\ storeSweep[1] # storeSweep[2]
  /\ store[1].PageNumber = 1
  /\ store[2].PageNumber = 1
  /\ Len(store[1].Quads) = 2
  /\ Len(store[2].Quads) = 2

\* C15: every getPageInfo/loadCanvas request of a sweep carries a page number p
\* with 1 <= p <= the page count of the document it is issued against (the
\* document the viewer holds when the request is made).
C15_PageNumberInRange ==
  [][\A s \in Sweeps :
       (pageNumber'[s] # pageNumber[s] /\ pc'[s] # "Finished")
         => (1 <= pageNumber'[s] /\ pageNumber'[s] <= doc)]_vars

\* C16: every marker committed to the store has the page number of the page
\* whose raster produced its detections (the page of the sweep's last
\* loadCanvas request, whose canvas the detections were found in), and the
\* current user as author, whatever other sweeps do in between.
C16_MarkerPageAndAuthor ==
  /\ [][\A s \in Sweeps :
          (pc[s] = "Detecting" /\ pc'[s] # pc[s] /\ Len(store') > Len(store))
          => LET marker == store'[Len(store')]
                 rasterPage == started[s][Len(started[s])]
             IN  /\ marker.PageNumber = rasterPage
                 /\ marker.Author = GetCurrentUser
                 /\ \A i \in 1..Len(lastRaw'[s]) :
                      lastRaw'[s][i].imageDims = CanvasSize(PageInfo(rasterPage))
                 /\ storeSweep'[Len(store')] = s]_vars
  /\ [](\A i \in 1..Len(store) :
          /\ store[i].Author = GetCurrentUser
          /\ store[i].PageNumber \in 1..numberOfPages[storeSweep[i]]
          /\ \E k \in 1..Len(started[storeSweep[i]]) :
               started[storeSweep[i]][k] = store[i].PageNumber)

\* Two sweeps interleaved: the second committed page 1 while the first was
\* already on page 2, and each marker carries its own page.
C16_Witness ==
  /\ Len(store) = 3
  /\ storeSweep = <<1, 2, 1>>
  /\ store[1].PageNumber = 1
  /\ store[2].PageNumber = 1
  /\ store[3].PageNumber = 2

\* C17, as claimed: the promise returned by detectAndRedactFacesFromPage never
\* rejects.
C17_NeverRejects ==
  \A s \in Sweeps : pc[s] # "Rejected"

\* C17, amended: the promise settles at most once.  It rejects only when the
\* executor throws synchronously (in the loop pass that invokes the page,
\* before the handler awaits); once the loadCanvas request stands, it either
\* resolves in the step that ends detection, after the annotate step, or stays
\* pending forever.
C17_SettlesAtMostOnce ==
  /\ [][\A s \in Sweeps :
          /\ (pc'[s] = "Rejected" /\ pc[s] # "Rejected") => pc[s] \in {"Idle", "Done"}
          /\ pc[s] \in {"Rasterizing", "Converting", "Detecting"}
               => pc'[s] # "Rejected"
          /\ pc[s] \in {"Hung", "Rejected"}
               => (pc'[s] = pc[s] /\ resolved'[s] = resolved[s] /\ failure'[s] = failure[s])
          /\ resolved'[s] # resolved[s]
               => (pc[s] = "Detecting" /\ resolved'[s] = Append(resolved[s], pageNumber[s]))]_vars
  /\ [](\A s \in Sweeps :
          /\ resolved[s] = PagesUpTo(Len(resolved[s]))
          /\ Len(resolved[s]) <= Len(started[s])
          /\ pc[s] \in {"Hung", "Rejected"} <=> Failed(s)
          /\ pc[s] = "Hung" => Len(resolved[s]) = Len(started[s]) - 1)

\* One page's promise is pending forever after its detection failed, and
\* another page's promise was rejected by a throw inside the executor.
C17_Witness ==
  \E s1, s2 \in Sweeps :
    /\ pc[s1] = "Hung"
    /\ failure[s1].kind = "DetectionFailure"
    /\ pc[s2] = "Rejected"
    /\ failure[s2].kind = "PageInfoFailure"

\* C18: per sweep, showProgress is called exactly once, before the first
\* progress notification and before any page is rasterized; hideProgress is
\* called at most once and only after every page 1..N reached Done, with exactly
\* N notifications fired; for a document without pages showProgress is followed
\* directly by hideProgress with no page processed; a sweep one of whose pages
\* never reaches Done never calls hideProgress.
C18_ProgressBracketing ==
  /\ [](\A s \in Sweeps :
          /\ pc[s] = "Idle" =>
               (shown[s] = 0 /\ hidden[s] = 0 /\ notified[s] = 0 /\ started[s] = <<>>)
          /\ pc[s] # "Idle" => shown[s] = 1
          /\ hidden[s] = (IF pc[s] = "Finished" THEN 1 ELSE 0)
          /\ hidden[s] = 1 =>
               /\ resolved[s] = PagesUpTo(numberOfPages[s])
               /\ notified[s] = numberOfPages[s]
          /\ (pc[s] # "Idle" /\ numberOfPages[s] = 0) =>
               (pc[s] = "Finished" /\ notified[s] = 0 /\ started[s] = <<>>)
          /\ Failed(s) => hidden[s] = 0)
  /\ [][\A s \in Sweeps :
          /\ shown'[s] # shown[s] =>
               (pc[s] = "Idle" /\ notified[s] = 0 /\ started[s] = <<>>)
          /\ hidden'[s] # hidden[s] =>
               /\ hidden'[s] = hidden[s] + 1
               /\ resolved[s] = PagesUpTo(numberOfPages[s])
               /\ resolved'[s] = resolved[s]
               /\ pc[s] \in {"Idle", "Done"}
          /\ pc[s] \in {"Hung", "Rejected"} => hidden'[s] = 0]_vars

\* A sweep over a document without pages: shown, hidden, nothing processed;
\* and a sweep over a full document that finished.
C18_Witness ==
  \E s1, s2 \in Sweeps :
    /\ numberOfPages[s1] = 0
    /\ pc[s1] = "Finished"
    /\ shown[s1] = 1
    /\ hidden[s1] = 1
    /\ numberOfPages[s2] = MaxPages
    /\ pc[s2] = "Finished"
    /\ notified[s2] = MaxPages

====
